---- MODULE Spec2Model ----
(***************************************************************************)
(* SimplePrefixTree (src/ACS_prefix_tree.py): a weighted prefix tree with  *)
(* insert, autocomplete, remove and __len__; CompressedPrefixTree, its     *)
(* subclass; and the loading of a file by LetterAutocompleteEngine and     *)
(* SentenceAutocompleteEngine (src/ACS_autocomplete_engines.py).           *)
(*                                                                         *)
(* A tree object is the record [root, weight, subtrees]; subtrees is the   *)
(* Python list of child objects, in list order.  Every method that mutates *)
(* self is an operator from the tree before the call to the tree after it. *)
(*                                                                         *)
(* Weights are Python floats; the model uses small positive integers, on   *)
(* which float addition and subtraction are exact.                         *)
(*                                                                         *)
(* A stored value is a Python str and a prefix is a Python list, and       *)
(* 'cat' == ['c', 'a', 't'] is False.  Value(s) tags the string so that    *)
(* the comparison of a value with a list is defined, and false.            *)
(***************************************************************************)
EXTENDS Integers, Sequences, FiniteSets

(* ------------------------------ bounds -------------------------------- *)

\* Largest root weight an insert call may produce.
MaxTotal == 9

\* Largest limit passed to autocomplete.
MaxLimit == 3

\* Largest number of insert calls made without regard to the preconditions.
MaxCalls == 2

\* Largest number of records in the file an engine loads.
MaxRecords == 2

\* Largest number of characters in the string of a record.
MaxLineLen == 2

(* ------------------------------ inputs -------------------------------- *)

Value(s) == <<"value", s>>

None == <<>>

Names == {"c", "cat", "car", "dog"}

\* The prefix sequence of a string is the list of its characters
\* (LetterAutocompleteEngine).
PrefixOf(s) ==
    CASE s = "c"   -> <<"c">>
      [] s = "cat" -> <<"c", "a", "t">>
      [] s = "car" -> <<"c", "a", "r">>
      [] s = "dog" -> <<"d", "o", "g">>

\* weight > 0; 2.0, 3.0 and 4.0 are the weights of the sample tests
Weights == {2, 3, 4}

IsPrefixOf(p, q) == Len(p) <= Len(q) /\ SubSeq(q, 1, Len(p)) = p

\* Every prefix of a prefix sequence in use, and one that no value has.
Prefixes ==
    UNION {{SubSeq(PrefixOf(s), 1, n) : n \in 0..Len(PrefixOf(s))} : s \in Names}
        \cup {<<"c", "o">>}

Limits == {None} \cup {<<n>> : n \in 1..MaxLimit}

\* Arguments that the docstring preconditions of insert and autocomplete rule
\* out: a weight <= 0, a prefix sequence other than the one the value has, a
\* limit <= 0.
AnyWeights == {0 - 1, 0, 2}

AnyPrefixes(s) == {PrefixOf(s), <<"c">>, <<"d", "o", "g">>, <<>>}

NonPositiveLimits == {<<0>>, <<0 - 1>>}

(* ------------------------- SimplePrefixTree --------------------------- *)

\* __init__: root = [], subtrees = [], weight = 0.0
EmptyTree == [root |-> <<>>, weight |-> 0, subtrees |-> <<>>]

is_empty(t) == t.weight = 0

is_leaf(t) == t.subtrees = <<>> /\ t.weight > 0

RECURSIVE SumLen(_)
RECURSIVE len(_)
\* sum of len over a list of subtrees
SumLen(ts) == IF ts = <<>> THEN 0 ELSE len(Head(ts)) + SumLen(Tail(ts))

len(t) ==
    IF is_empty(t) THEN 0
    ELSE IF is_leaf(t) THEN 1
    ELSE SumLen(t.subtrees)

\* Faulty variant of create_node: the root of the new node is the one symbol
\* alone, without the root of the node above it.
create_node_fragment(initial, value, weight) ==
    [root |-> value, weight |-> weight, subtrees |-> <<>>]

\* Faulty variant of create_node: the root of the new node is the symbol
\* followed by the root of the node above it.
create_node_reversed(initial, value, weight) ==
    [root |-> value \o initial, weight |-> weight, subtrees |-> <<>>]

\* create_node: root = initial + value, the given weight, no subtrees
create_node(initial, value, weight) ==
    [root |-> initial \o value, weight |-> weight, subtrees |-> <<>>]

\* Faulty variant of get_subtree_roots: no root is reported.
get_subtree_roots_omitted(subtrees) == <<>>

get_subtree_roots(subtrees) == [i \in 1..Len(subtrees) |-> subtrees[i].root]

RECURSIVE get_leaves(_)
RECURSIVE LeavesOfAll(_)
LeavesOfAll(ts) ==
    IF ts = <<>> THEN <<>> ELSE get_leaves(Head(ts)) \o LeavesOfAll(Tail(ts))

get_leaves(t) ==
    IF is_empty(t) THEN <<>>
    ELSE IF is_leaf(t) THEN <<t>>
    ELSE LeavesOfAll(t.subtrees)

get_leaf_value(t) ==
    LET leaves == get_leaves(t) IN [i \in 1..Len(leaves) |-> leaves[i].root]

InList(x, lst) == \E i \in 1..Len(lst) : lst[i] = x

\* list.index: the first position holding x
IndexOf(x, lst) == CHOOSE i \in 1..Len(lst) :
                       lst[i] = x /\ \A j \in 1..(i - 1) : lst[j] # x

\* list.sort(key=weight, reverse=True) is stable: an element comes after
\* every element of larger key and after the equal ones that preceded it.
SortedDesc(lst, keys) ==
    LET n == Len(lst)
        Rank(i) == Cardinality({j \in 1..n : \/ keys[j] > keys[i]
                                             \/ keys[j] = keys[i] /\ j < i}) + 1
    IN  [r \in 1..n |-> lst[CHOOSE i \in 1..n : Rank(i) = r]]

\* Faulty variant of sort_subtrees: the subtrees are left in the order of creation.
sort_subtrees_omitted(subtrees) == subtrees

\* self.subtrees.sort(key=lambda sub_tree: sub_tree.weight, reverse=True)
sort_subtrees(subtrees) ==
    SortedDesc(subtrees, [i \in 1..Len(subtrees) |-> subtrees[i].weight])

\* Faulty variant of sort_tuples: the matches are returned in traversal order.
sort_tuples_omitted(lst) == lst

\* lst.sort(key=lambda tup: tup[1], reverse=True)
sort_tuples(lst) == SortedDesc(lst, [i \in 1..Len(lst) |-> lst[i][2]])

\* Faulty variant of insert_value: the value gets a new leaf whether or not a leaf
\* holds it already.
insert_value_new_leaf(t, value, weight) ==
    [t EXCEPT
       !.subtrees = Append(@, [root |-> value, weight |-> weight,
                               subtrees |-> <<>>]),
       !.weight = IF t.subtrees = <<>> THEN weight ELSE @ + weight]

\* Faulty variant of insert_value: a leaf that holds the value already gains
\* the weight and the node above it does not.
insert_value_leaf_only(t, value, weight) ==
    LET leaf == [root |-> value, weight |-> weight, subtrees |-> <<>>]
    IN  IF t.subtrees = <<>> THEN
            [t EXCEPT !.weight = weight, !.subtrees = <<leaf>>]
        ELSE IF ~InList(value, get_leaf_value(t)) THEN
            [t EXCEPT !.subtrees = Append(@, leaf), !.weight = @ + weight]
        ELSE
            [t EXCEPT
               !.subtrees = [i \in 1..Len(@) |->
                                IF @[i].root = value
                                THEN [@[i] EXCEPT !.weight = @ + weight]
                                ELSE @[i]]]

\* insert, the branch len(prefix) == 0: the value is stored in a leaf among
\* the subtrees of t, or added to the leaf that holds it already.
insert_value(t, value, weight) ==
    LET leaf == [root |-> value, weight |-> weight, subtrees |-> <<>>]
        hits == {i \in 1..Len(t.subtrees) : t.subtrees[i].root = value}
    IN  IF t.subtrees = <<>> THEN
            [t EXCEPT !.weight = weight, !.subtrees = <<leaf>>]
        ELSE IF ~InList(value, get_leaf_value(t)) THEN
            [t EXCEPT !.subtrees = Append(@, leaf), !.weight = @ + weight]
        ELSE
            \* every subtree whose root == value gains the weight
            [t EXCEPT
               !.subtrees = [i \in 1..Len(@) |->
                                IF i \in hits
                                THEN [@[i] EXCEPT !.weight = @ + weight]
                                ELSE @[i]],
               !.weight = @ + weight * Cardinality(hits)]

RECURSIVE insert(_, _, _, _)
insert(t, value, weight, prefix) ==
    LET node == create_node(t.root, SubSeq(prefix, 1, 1), weight)
        roots == get_subtree_roots(t.subtrees)
        index == IndexOf(node.root, roots)
        self ==
            IF Len(prefix) = 0 THEN insert_value(t, value, weight)
            ELSE IF ~InList(node.root, roots) THEN
                [t EXCEPT
                   !.subtrees = Append(@, insert(node, value, weight,
                                                 Tail(prefix))),
                   !.weight = IF Len(t.subtrees) + 1 <= 1
                              THEN weight ELSE @ + weight]
            ELSE
                [t EXCEPT
                   !.weight = @ + weight,
                   !.subtrees[index] = insert(@, value, weight, Tail(prefix))]
    IN  [self EXCEPT !.subtrees = sort_subtrees(@)]

DropAt(lst, i) == SubSeq(lst, 1, i - 1) \o SubSeq(lst, i + 1, Len(lst))

RECURSIVE remove(_, _)
RECURSIVE remove_loop(_, _, _)
\* Faulty variant of remove_loop: a subtree that the call emptied stays in
\* self.subtrees.
remove_loop_keeps_empty(t, prefix, i) ==
    IF i > Len(t.subtrees) THEN t
    ELSE LET subtree_wt == t.subtrees[i].weight
             subtree == remove(t.subtrees[i], prefix)
         IN  IF is_empty(subtree)
             THEN remove_loop([t EXCEPT !.weight = @ - subtree_wt,
                                        !.subtrees[i] = subtree],
                              prefix, i + 1)
             ELSE remove_loop([t EXCEPT !.subtrees[i] = subtree],
                              prefix, i + 1)

\* The for loop of remove; i is the position of the list iterator.  A
\* subtree dropped from self.subtrees inside the loop shifts the rest of the
\* list left while the iterator still advances.
remove_loop(t, prefix, i) ==
    IF i > Len(t.subtrees) THEN t
    ELSE LET subtree_wt == t.subtrees[i].weight
             subtree == remove(t.subtrees[i], prefix)
         IN  IF is_empty(subtree)
             THEN remove_loop([t EXCEPT !.weight = @ - subtree_wt,
                                        !.subtrees = DropAt(@, i)],
                              prefix, i + 1)
             ELSE remove_loop([t EXCEPT !.subtrees[i] = subtree],
                              prefix, i + 1)

\* Faulty variant of remove: the call leaves the tree as it was.
remove_omitted(t, prefix) == t

\* Faulty variant of remove: the tree that matches gets the weight 0.0 and
\* keeps its subtrees.
remove_keeps_subtrees(t, prefix) ==
    IF prefix = <<>> THEN [t EXCEPT !.weight = 0]
    ELSE IF t.root = prefix THEN [t EXCEPT !.weight = 0]
    ELSE remove_loop(t, prefix, 1)

remove(t, prefix) ==
    IF prefix = <<>> THEN EmptyTree
    ELSE IF t.root = prefix THEN EmptyTree
    ELSE remove_loop(t, prefix, 1)

Min(a, b) == IF a <= b THEN a ELSE b

\* Variant of first_entries: the limit heaviest entries (a true top-k).
first_entries_heaviest(tuples, limit) ==
    SubSeq(sort_tuples(tuples), 1, Min(limit, Len(tuples)))

\* for i in range(min(limit, len(leaves))): the first entries, in list order
first_entries(tuples, limit) == SubSeq(tuples, 1, Min(limit, Len(tuples)))

RECURSIVE autocomplete(_, _, _)
RECURSIVE AutocompleteAll(_, _, _)
\* lst.extend(subtree.autocomplete(prefix, limit)) for each subtree
AutocompleteAll(ts, prefix, limit) ==
    IF ts = <<>> THEN <<>>
    ELSE autocomplete(Head(ts), prefix, limit)
             \o AutocompleteAll(Tail(ts), prefix, limit)

autocomplete(t, prefix, limit) ==
    LET leaves == get_leaves(t)
        tuples == [i \in 1..Len(leaves) |-> <<leaves[i].root, leaves[i].weight>>]
    IN  IF limit = None THEN
            IF t.root = prefix THEN sort_tuples(tuples)
            ELSE AutocompleteAll(t.subtrees, prefix, limit)
        ELSE
            IF t.root = prefix
            THEN first_entries(tuples, limit[1])
            ELSE AutocompleteAll(t.subtrees, prefix, limit)

(* ------------------------ CompressedPrefixTree ------------------------ *)

\* class CompressedPrefixTree(SimplePrefixTree) defines no method: a call on
\* a CompressedPrefixTree object runs the method of SimplePrefixTree.

compressed_insert(t, value, weight, prefix) == insert(t, value, weight, prefix)

compressed_remove(t, prefix) == remove(t, prefix)

compressed_len(t) == len(t)

compressed_autocomplete(t, prefix, limit) == autocomplete(t, prefix, limit)

(* ------------------- the engines' loading of a file ------------------- *)

\* The characters of a record: a lower-case letter, an upper-case letter, the
\* space, and a character that is neither alphanumeric nor the space.
Chars == {"c", "C", " ", "!"}

RawLines == UNION {[1..n -> Chars] : n \in 0..MaxLineLen}

\* char.isalnum()
isalnum(char) == char \in {"c", "C"}

\* str.lower(), character by character
lower(char) == IF char = "C" THEN "c" ELSE char

\* The sanitized string as the list of its characters: the characters that
\* are alphanumeric or the space are kept, then lower-cased.
Sanitize(line) ==
    LET kept == SelectSeq(line, LAMBDA char : isalnum(char) \/ char = " ")
    IN  [i \in 1..Len(kept) |-> lower(kept[i])]

\* The str made of the characters
RECURSIVE Join(_)
Join(chars) == IF chars = <<>> THEN "" ELSE Head(chars) \o Join(Tail(chars))

\* str.split(' '): the pieces between the spaces, empty ones included; word
\* is the piece being read.
RECURSIVE Split(_, _)
Split(chars, word) ==
    IF chars = <<>> THEN <<Join(word)>>
    ELSE IF Head(chars) = " " THEN <<Join(word)>> \o Split(Tail(chars), <<>>)
    ELSE Split(Tail(chars), Append(word, Head(chars)))

\* prefix = sentence.split(' ') with every '' removed
Words(chars) == SelectSeq(Split(chars, <<>>), LAMBDA word : word # "")

\* LetterAutocompleteEngine gives every string the weight 1.0
LetterWeight == 1

(* --------------------------- the state machine ------------------------ *)

VARIABLES
    tree,      \* the SimplePrefixTree object
    ctree,     \* a CompressedPrefixTree object that is given the same calls
    stored,    \* history: per name, the weight inserted since it was last removed
    call,      \* history: the last call made and its arguments
    result,    \* what the last call returned
    raised,    \* the exception the last call raised, NoError when it returned
    prev,      \* history: tree and stored as they were before the last call
    removed,   \* history: some remove call has been made
    log        \* history: what a specification records of the calls made
               \* (SpecBatch and SpecUnchecked: the insert calls, in call
               \* order; SpecLoad: the records; SpecReinsert: the names
               \* removed and not inserted since)

vars == <<tree, ctree, stored, call, result, raised, prev, removed, log>>

\* No method of the tree has a raise statement, and no step of the bodies
\* makes the interpreter raise.  The classes are under @check_contracts of
\* python_ta, which is not part of the repository: a method is its body, as
\* the tests of the repository run it.
NoError == "none"

\* prefix[0:len(root)] == root; a slice stops at the end of the list
PrefixStartsWithRoot(root, prefix) ==
    SubSeq(prefix, 1, Min(Len(root), Len(prefix))) = root

NoCall == [kind |-> "init", name |-> "", weight |-> 0, prefix |-> <<>>,
           limit |-> None]

Init ==
    /\ tree = EmptyTree
    /\ ctree = EmptyTree
    /\ stored = [s \in Names |-> 0]
    /\ call = NoCall
    /\ result = None
    /\ raised = NoError
    /\ prev = [tree |-> EmptyTree, stored |-> [s \in Names |-> 0]]
    /\ removed = FALSE
    /\ log = <<>>

\* A query returns a list and leaves the tree as it was, so a call made after
\* a query leads exactly where the same call leads when made instead of the
\* query; the calls that follow a query are explored from the state before it.
AfterQuery == call.kind = "autocomplete"

\* tree.insert(s, w, prefix of s): the preconditions hold (w > 0, a value is
\* always inserted with its own prefix sequence).
DoInsert(s, w) ==
    /\ tree' = insert(tree, Value(s), w, PrefixOf(s))
    /\ ctree' = compressed_insert(ctree, Value(s), w, PrefixOf(s))
    /\ stored' = [stored EXCEPT ![s] = @ + w]
    /\ call' = [kind |-> "insert", name |-> s, weight |-> w,
                prefix |-> PrefixOf(s), limit |-> None]
    /\ result' = None
    /\ raised' = NoError
    /\ prev' = [tree |-> tree, stored |-> stored]

Insert ==
    \E s \in Names, w \in Weights :
        /\ ~AfterQuery
        /\ tree.weight + w <= MaxTotal
        /\ DoInsert(s, w)
        /\ UNCHANGED <<removed, log>>

\* tree.remove(p)
Remove ==
    \E p \in Prefixes :
        /\ ~AfterQuery
        /\ tree' = remove(tree, p)
        /\ ctree' = compressed_remove(ctree, p)
        /\ stored' = [s \in Names |->
                         IF IsPrefixOf(p, PrefixOf(s)) THEN 0 ELSE stored[s]]
        /\ call' = [kind |-> "remove", name |-> "", weight |-> 0,
                    prefix |-> p, limit |-> None]
        /\ result' = None
        /\ raised' = NoError
        /\ prev' = [tree |-> tree, stored |-> stored]
        /\ removed' = TRUE
        /\ UNCHANGED log

\* tree.autocomplete(p, l), limit None or > 0
Autocomplete ==
    \E p \in Prefixes, l \in Limits :
        /\ ~AfterQuery
        /\ result' = autocomplete(tree, p, l)
        /\ raised' = NoError
        /\ call' = [kind |-> "autocomplete", name |-> "", weight |-> 0,
                    prefix |-> p, limit |-> l]
        /\ prev' = [tree |-> tree, stored |-> stored]
        /\ UNCHANGED <<tree, ctree, stored, removed, log>>

Next == Insert \/ Remove \/ Autocomplete

Spec == Init /\ [][Next]_vars

\* One batch of insert calls into a fresh tree, the calls kept in call order.
BatchInsert ==
    \E s \in Names, w \in Weights :
        /\ tree.weight + w <= MaxTotal
        /\ DoInsert(s, w)
        /\ log' = Append(log, [name |-> s, weight |-> w])
        /\ UNCHANGED removed

SpecBatch == Init /\ [][BatchInsert]_vars

\* tree.insert(s, w, p) with any weight and any prefix sequence, made by a
\* caller that does not look at the preconditions of the docstring: the body
\* runs as for any other arguments.  The calls are kept in call order.
UncheckedInsert ==
    \E s \in Names, w \in AnyWeights :
        \E p \in AnyPrefixes(s) :
            /\ ~AfterQuery
            /\ Len(log) < MaxCalls
            /\ tree' = insert(tree, Value(s), w, p)
            /\ ctree' = compressed_insert(ctree, Value(s), w, p)
            /\ stored' = [stored EXCEPT ![s] = @ + w]
            /\ call' = [kind |-> "insert", name |-> s, weight |-> w,
                        prefix |-> p, limit |-> None]
            /\ result' = None
            /\ raised' = NoError
            /\ prev' = [tree |-> tree, stored |-> stored]
            /\ log' = Append(log, [name |-> s, weight |-> w, prefix |-> p])
            /\ UNCHANGED removed

\* tree.autocomplete(p, l) with a limit <= 0: the body runs, and
\* range(min(limit, len(leaves))) is empty.
UncheckedAutocomplete ==
    \E p \in Prefixes, l \in NonPositiveLimits :
        /\ ~AfterQuery
        /\ result' = autocomplete(tree, p, l)
        /\ raised' = NoError
        /\ call' = [kind |-> "autocomplete", name |-> "", weight |-> 0,
                    prefix |-> p, limit |-> l]
        /\ prev' = [tree |-> tree, stored |-> stored]
        /\ UNCHANGED <<tree, ctree, stored, removed, log>>

\* The names in a fixed order
NameOrder == <<"c", "cat", "car", "dog">>

\* The names of the set S as a list
ListOf(S) == SelectSeq(NameOrder, LAMBDA s : s \in S)

\* The names of a list
SetOf(lst) == {lst[i] : i \in 1..Len(lst)}

\* tree.insert(s, w, prefix of s), as Insert; log is the list of the names
\* removed and not inserted since, and prev keeps it as it was before the
\* call.
TrackedInsert ==
    \E s \in Names, w \in Weights :
        /\ tree.weight + w <= MaxTotal
        /\ tree' = insert(tree, Value(s), w, PrefixOf(s))
        /\ ctree' = compressed_insert(ctree, Value(s), w, PrefixOf(s))
        /\ stored' = [stored EXCEPT ![s] = @ + w]
        /\ call' = [kind |-> "insert", name |-> s, weight |-> w,
                    prefix |-> PrefixOf(s), limit |-> None]
        /\ result' = None
        /\ raised' = NoError
        /\ prev' = [tree |-> tree, stored |-> stored, log |-> log]
        /\ log' = ListOf(SetOf(log) \ {s})
        /\ UNCHANGED removed

\* tree.remove(p), as Remove; the names stored under p join log.
TrackedRemove ==
    \E p \in Prefixes :
        /\ tree' = remove(tree, p)
        /\ ctree' = compressed_remove(ctree, p)
        /\ stored' = [s \in Names |->
                         IF IsPrefixOf(p, PrefixOf(s)) THEN 0 ELSE stored[s]]
        /\ call' = [kind |-> "remove", name |-> "", weight |-> 0,
                    prefix |-> p, limit |-> None]
        /\ result' = None
        /\ raised' = NoError
        /\ prev' = [tree |-> tree, stored |-> stored, log |-> log]
        /\ removed' = TRUE
        /\ log' = ListOf(SetOf(log) \cup
                            {s \in Names : /\ stored[s] > 0
                                           /\ IsPrefixOf(p, PrefixOf(s))})

SpecReinsert == Init /\ [][TrackedInsert \/ TrackedRemove]_vars

\* LetterAutocompleteEngine.__init__, one line of the file: the line is
\* sanitized and inserted under the list of its characters.  An engine loads
\* every record of its file; the engine is that of the first record loaded.
LetterLoad ==
    \E line \in RawLines :
        LET word == Sanitize(line) IN
        /\ call.kind \in {"init", "letter_load"}
        /\ Len(log) < MaxRecords
        /\ tree' = insert(tree, Value(Join(word)), LetterWeight, word)
        /\ ctree' = compressed_insert(ctree, Value(Join(word)), LetterWeight,
                                      word)
        /\ call' = [kind |-> "letter_load", name |-> Join(word),
                    weight |-> LetterWeight, prefix |-> word, limit |-> None]
        /\ result' = None
        /\ raised' = NoError
        /\ prev' = [tree |-> tree, stored |-> stored]
        /\ log' = Append(log, [line |-> line, weight |-> LetterWeight])
        /\ UNCHANGED <<stored, removed>>

\* SentenceAutocompleteEngine.__init__, one row of the CSV file: the first
\* entry is sanitized and inserted, with the weight of the second entry,
\* under the list of its words.
SentenceLoad ==
    \E line \in RawLines, w \in Weights :
        LET sentence == Sanitize(line) IN
        /\ call.kind \in {"init", "sentence_load"}
        /\ Len(log) < MaxRecords
        /\ tree' = insert(tree, Value(Join(sentence)), w, Words(sentence))
        /\ ctree' = compressed_insert(ctree, Value(Join(sentence)), w,
                                      Words(sentence))
        /\ call' = [kind |-> "sentence_load", name |-> Join(sentence),
                    weight |-> w, prefix |-> Words(sentence), limit |-> None]
        /\ result' = None
        /\ raised' = NoError
        /\ prev' = [tree |-> tree, stored |-> stored]
        /\ log' = Append(log, [line |-> line, weight |-> w])
        /\ UNCHANGED <<stored, removed>>

SpecLoad == Init /\ [][LetterLoad \/ SentenceLoad]_vars

SpecUnchecked == Init /\ [][UncheckedInsert \/ UncheckedAutocomplete]_vars

(* ------------------------- auxiliary definitions ---------------------- *)

RECURSIVE Nodes(_)
\* every tree object reachable from t, t included
Nodes(t) == {t} \cup UNION {Nodes(t.subtrees[i]) : i \in 1..Len(t.subtrees)}

RECURSIVE SumWeights(_)
SumWeights(ts) ==
    IF ts = <<>> THEN 0 ELSE Head(ts).weight + SumWeights(Tail(ts))

RECURSIVE SumStored(_, _)
SumStored(f, S) ==
    IF S = {} THEN 0
    ELSE LET s == CHOOSE x \in S : TRUE IN f[s] + SumStored(f, S \ {s})

StoredNames(f) == {s \in Names : f[s] > 0}

NonIncreasing(ws) == \A i \in 1..Len(ws) : \A j \in (i + 1)..Len(ws) : ws[i] >= ws[j]

SubtreeWeights(t) == [i \in 1..Len(t.subtrees) |-> t.subtrees[i].weight]

ResultWeights(r) == [i \in 1..Len(r) |-> r[i][2]]

\* the number of times each element occurs in a list
BagOf(lst) ==
    [x \in {lst[i] : i \in 1..Len(lst)} |-> Cardinality({i \in 1..Len(lst) : lst[i] = x})]

IsValue(root) == Len(root) = 2 /\ root[1] = "value"

\* The prefix sequence a returned entry was stored under: a value's own
\* prefix sequence, and for a tree object that holds a prefix, that prefix.
PrefixOfRoot(root) == IF IsValue(root) THEN PrefixOf(root[2]) ELSE root

(* -------------------------------- claims ------------------------------ *)

\* C1: after any sequence of insert and remove calls, the weight of every
\* tree object that has subtrees is the sum of the weights of its subtrees,
\* and the root weight is the sum of the weights of the values still stored.
\* (Violated: remove subtracts a removed subtree's weight from its parent
\* only, and from further ancestors only when the parent became empty.)
C1_WeightIsSumOfSubtrees ==
    /\ \A n \in Nodes(tree) :
           n.subtrees # <<>> => n.weight = SumWeights(n.subtrees)
    /\ tree.weight = SumStored(stored, Names)

\* C2: after every insert or remove call, every subtrees list is ordered by
\* non-increasing weight.  (Violated: remove lowers a subtree's weight and
\* never sorts.)
C2_SubtreesSorted ==
    call.kind \in {"insert", "remove"} =>
        \A n \in Nodes(tree) : NonIncreasing(SubtreeWeights(n))

\* C3: remove(p) deletes exactly the values whose prefix sequence begins with
\* p: autocomplete([], None) after the call returns the pairs it returned
\* before the call, minus those whose prefix sequence begins with p.
\* (Violated: a tree object emptied of its subtrees by removes keeps a stale
\* positive weight and is then returned as if it were a leaf.)
C3_RemoveDeletesExactly ==
    call.kind = "remove" =>
        LET before == autocomplete(prev.tree, <<>>, None)
            after == autocomplete(tree, <<>>, None)
            Kept(pair) == ~IsPrefixOf(call.prefix, PrefixOfRoot(pair[1]))
        IN  BagOf(after) = BagOf(SelectSeq(before, Kept))

\* C4: len(tree) is the number of values stored: those inserted and not
\* removed since.  (Violated: a tree object with a stale positive weight and
\* no subtrees counts as a leaf.)
C4_LenCountsStoredValues ==
    len(tree) = Cardinality(StoredNames(stored))


\* the values whose prefix sequence begins with p, with their stored weight
Matches(f, p) ==
    {<<Value(s), f[s]>> : s \in {x \in StoredNames(f) : IsPrefixOf(p, PrefixOf(x))}}

Entries(r) == {r[i] : i \in 1..Len(r)}

\* C5: on a tree built by insert calls only, autocomplete(prefix, None)
\* returns one (value, total inserted weight) pair for each inserted value
\* whose prefix sequence begins with prefix and nothing else, in
\* non-increasing weight order; [] when no value matches.
C5_AutocompleteReturnsEveryMatch ==
    (~removed /\ call.kind = "autocomplete" /\ call.limit = None) =>
        /\ Entries(result) = Matches(stored, call.prefix)
        /\ Len(result) = Cardinality(Matches(stored, call.prefix))
        /\ NonIncreasing(ResultWeights(result))

\* C5 witness: three values stored, autocomplete(['c', 'a'], None) returned
\* the two that match, the heavier first.
C5_Witness ==
    /\ ~removed /\ call.kind = "autocomplete" /\ call.limit = None
    /\ call.prefix = <<"c", "a">>
    /\ stored["dog"] > 0
    /\ result = <<<<Value("car"), 3>>, <<Value("cat"), 2>>>>

RECURSIVE NodeAt(_, _)
\* The tree object whose path from the root is p, found by walking down one
\* symbol at a time: <<the object>>, or <<>> when there is none.
NodeAt(t, p) ==
    IF t.root = p THEN <<t>>
    ELSE LET next == {i \in 1..Len(t.subtrees) :
                         /\ ~IsValue(t.subtrees[i].root)
                         /\ Len(t.subtrees[i].root) = Len(t.root) + 1
                         /\ IsPrefixOf(t.subtrees[i].root, p)}
         IN  IF next = {} THEN <<>>
             ELSE NodeAt(t.subtrees[CHOOSE i \in next : TRUE], p)

RECURSIVE PreOrderLeaves(_)
RECURSIVE PreOrderAll(_)
PreOrderAll(ts) ==
    IF ts = <<>> THEN <<>>
    ELSE PreOrderLeaves(Head(ts)) \o PreOrderAll(Tail(ts))

\* the leaves below n, depth first, subtrees in their stored order
PreOrderLeaves(n) ==
    IF n.subtrees = <<>>
    THEN IF n.weight > 0 THEN <<n>> ELSE <<>>
    ELSE PreOrderAll(n.subtrees)

\* C6: for a positive limit, autocomplete(prefix, limit) returns the first
\* min(limit, m) of the m leaves below the tree object whose path is prefix,
\* in depth-first pre-order, not sorted again (and [] when there is no such
\* object).
C6_LimitTakesFirstLeavesInPreOrder ==
    (call.kind = "autocomplete" /\ call.limit # None) =>
        LET at == NodeAt(tree, call.prefix)
            leaves == IF at = <<>> THEN <<>> ELSE PreOrderLeaves(at[1])
            k == Min(call.limit[1], Len(leaves))
        IN  /\ Len(result) = k
            /\ \A i \in 1..k : result[i] = <<leaves[i].root, leaves[i].weight>>

\* C6 witness: cat 2, car 3, dog 4 stored; autocomplete([], 1) returned
\* [('car', 3)] although 'dog' weighs 4.
C6_Witness ==
    /\ ~removed /\ call.kind = "autocomplete"
    /\ call.prefix = <<>> /\ call.limit = <<1>>
    /\ stored = [s \in Names |->
                    CASE s = "cat" -> 2 [] s = "car" -> 3 [] s = "dog" -> 4
                      [] OTHER -> 0]
    /\ result = <<<<Value("car"), 3>>>>
    /\ <<Value("dog"), 4>> \in Entries(autocomplete(tree, <<>>, None))

\* C7: for every prefix and every limit, the list autocomplete returns is in
\* non-increasing weight order.  (Violated with a limit: the first leaves in
\* pre-order are returned as found.)
C7_ResultSortedForEveryLimit ==
    call.kind = "autocomplete" => NonIncreasing(ResultWeights(result))

\* C8: inserting a value that is stored already, with its prefix sequence,
\* adds the weight to its leaf and creates no leaf: len is unchanged and
\* autocomplete on any prefix of its prefix sequence returns the value once,
\* with the sum of the weights inserted.
C8_ReinsertAddsWeight ==
    (call.kind = "insert" /\ prev.stored[call.name] > 0) =>
        /\ len(tree) = len(prev.tree)
        /\ \A p \in Prefixes :
              IsPrefixOf(p, call.prefix) =>
                  LET r == autocomplete(tree, p, None)
                      was == autocomplete(prev.tree, p, None)
                      at == {i \in 1..Len(r) : r[i][1] = Value(call.name)}
                  IN  /\ Cardinality(at) = 1
                      /\ \A i \in at :
                            /\ r[i][2] = prev.stored[call.name] + call.weight
                            /\ <<Value(call.name), r[i][2] - call.weight>>
                                   \in Entries(was)
                      /\ Len(r) = Len(was)

\* C8 witness: 'cat' stored with weight 4 among other values, then inserted
\* again with weight 3.
C8_Witness ==
    /\ call.kind = "insert" /\ call.name = "cat" /\ call.weight = 3
    /\ prev.stored["cat"] = 4 /\ prev.stored["car"] > 0
    /\ <<Value("cat"), 7>> \in Entries(autocomplete(tree, <<"c">>, None))

RECURSIVE Build(_, _)
\* the tree after the insert calls of a list, made in list order
Build(t, calls) ==
    IF calls = <<>> THEN t
    ELSE Build(insert(t, Value(Head(calls).name), Head(calls).weight,
                      PrefixOf(Head(calls).name)),
               Tail(calls))

CallOrders(n) ==
    {f \in [1..n -> 1..n] : \A i, j \in 1..n : f[i] = f[j] => i = j}

Observed(t) ==
    [pairs |-> BagOf(autocomplete(t, <<>>, None)), weight |-> t.weight,
     len |-> len(t)]

TopLevel(t) ==
    [i \in 1..Len(t.subtrees) |-> <<t.subtrees[i].root, t.subtrees[i].weight>>]

DistinctWeights(t) ==
    \A i, j \in 1..Len(t.subtrees) :
        i # j => t.subtrees[i].weight # t.subtrees[j].weight

\* C9: the insert calls of a batch, made in any other order into an empty
\* tree, give the same (value, total weight) pairs from autocomplete([], None),
\* the same root weight, the same len and, when the top-level weights are
\* pairwise different, the same sequence of top-level (root, weight).
C9_InsertOrderIndependent ==
    LET seen == Observed(tree)
        top == TopLevel(tree)
        distinct == DistinctWeights(tree)
    IN  \A calls \in {[i \in 1..Len(log) |-> log[f[i]]] : f \in CallOrders(Len(log))} :
            LET other == Build(EmptyTree, calls)
            IN  /\ Observed(other) = seen
                /\ distinct => TopLevel(other) = top

\* C9 witness: 'dog' 4 inserted first, then 'cat' 2 and 'car' 3; the ['c']
\* subtree, created last, comes first.
C9_Witness ==
    /\ Len(log) = 3 /\ log[1] = [name |-> "dog", weight |-> 4]
    /\ {log[2].name, log[3].name} = {"cat", "car"}
    /\ TopLevel(tree) = <<<<<<"c">>, 5>>, <<<<"d">>, 4>>>>
    /\ tree.weight = 9 /\ len(tree) = 3

\* C10: remove(p), when no stored value's prefix sequence begins with p,
\* changes nothing: the tree is identical before and after.  (Violated: a
\* tree object left with a stale weight and no subtrees is matched and reset
\* although it holds no value.)
C10_RemoveWithoutMatchIsNoOp ==
    (/\ call.kind = "remove"
     /\ \A s \in StoredNames(prev.stored) : ~IsPrefixOf(call.prefix, PrefixOf(s)))
        => tree = prev.tree

(* ------------------------ C11: compressed shape ------------------------ *)

\* An internal node is a node that has subtrees.
IsInternal(n) == n.subtrees # <<>>

\* C11: in a CompressedPrefixTree, after any insert and remove calls, no
\* internal node other than the root has exactly one child.
C11_NoCompressibleNode ==
    \A n \in Nodes(ctree) : \A i \in 1..Len(n.subtrees) :
        IsInternal(n.subtrees[i]) => Len(n.subtrees[i].subtrees) # 1

(* --------------------- C13: insert, weight <= 0 ------------------------ *)

\* C13: insert(value, weight, prefix) with weight <= 0 fails with an
\* InvalidWeight error and leaves the tree unchanged.
C13_NonPositiveWeightRejected ==
    call.kind = "insert" /\ call.weight <= 0
        => raised = "InvalidWeight" /\ tree = prev.tree

(* ------------------- C14: insert, conflicting prefix ------------------- *)

\* The insert call that first stored the value of the last call did so under
\* another prefix sequence.
StoredUnderOtherPrefix ==
    \E i \in 1..(Len(log) - 1) :
        /\ log[i].name = call.name
        /\ log[i].weight > 0
        /\ log[i].prefix # call.prefix
        /\ \A j \in 1..(i - 1) : log[j].name # call.name

\* C14: insert of a value that is stored already, with a prefix sequence
\* other than the one it was first inserted with, fails with a
\* ConflictingPrefix error and leaves the tree unchanged.
C14_ConflictingPrefixRejected ==
    call.kind = "insert" /\ call.weight > 0 /\ StoredUnderOtherPrefix
        => raised = "ConflictingPrefix" /\ tree = prev.tree

(* ------------------- C15: autocomplete, limit <= 0 --------------------- *)

\* C15: autocomplete(prefix, limit) with a limit of 0 or less fails with an
\* InvalidLimit error instead of returning a list.
C15_NonPositiveLimitRejected ==
    call.kind = "autocomplete" /\ call.limit # None /\ call.limit[1] <= 0
        => raised = "InvalidLimit"

(* ----------------------- C16: blank records ---------------------------- *)

\* The sanitized string has no character other than the space.
IsBlank(chars) == \A i \in 1..Len(chars) : chars[i] = " "

\* C16: a record whose sanitized string has no non-space character is
\* skipped by the loader of LetterAutocompleteEngine and of
\* SentenceAutocompleteEngine: the len and the weight of the autocompleter
\* are what they were before the record.
C16_BlankRecordSkipped ==
    /\ call.kind \in {"letter_load", "sentence_load"}
    /\ IsBlank(Sanitize(log[Len(log)].line))
    => /\ len(tree) = len(prev.tree)
       /\ tree.weight = prev.tree.weight

(* ---------------------- C17: no empty subtree -------------------------- *)

\* C17: after any insert (weight > 0) and remove calls, no subtrees list
\* holds an empty prefix tree (a subtree with weight 0.0).
C17_NoEmptySubtree ==
    \A n \in Nodes(tree) : \A i \in 1..Len(n.subtrees) :
        ~is_empty(n.subtrees[i])

\* A remove call emptied a subtree below the top level and values remain.
C17_Witness ==
    /\ call.kind = "remove"
    /\ Len(call.prefix) >= 2
    /\ Cardinality(Nodes(tree)) < Cardinality(Nodes(prev.tree))
    /\ len(tree) >= 1

(* ------------------- C18: nodes without subtrees ----------------------- *)

\* C18: in a tree reached by insert and remove calls, every node with no
\* subtrees and a weight > 0 is a leaf whose root is a value that was
\* inserted and not removed since; no node whose root is a prefix list has a
\* weight > 0 and no subtrees.
C18_ChildlessNodeHoldsStoredValue ==
    \A n \in Nodes(tree) :
        n.subtrees = <<>> /\ n.weight > 0
            => IsValue(n.root) /\ stored[n.root[2]] > 0

(* ----------------------- C19: frame of insert -------------------------- *)

\* The roots of the nodes from the root of the tree down to the leaf of the
\* value: every prefix of the prefix sequence, and the value.
PathRoots(value, prefix) ==
    {SubSeq(prefix, 1, k) : k \in 0..Len(prefix)} \cup {value}

\* The weight of the node of t with the given root, 0 when t has none
WeightAt(t, root) ==
    LET ns == {n \in Nodes(t) : n.root = root}
    IN  IF ns = {} THEN 0 ELSE (CHOOSE n \in ns : TRUE).weight

\* C19: on a tree built by insert calls only, insert(value, weight, prefix)
\* adds exactly weight to the leaf of the value, created when absent, and to
\* every node on the path from the root to it, and leaves every node off
\* that path as it was (root, weight and subtrees).
C19_InsertChangesPathOnly ==
    ~removed /\ call.kind = "insert" =>
        LET path == PathRoots(Value(call.name), call.prefix)
            old  == Nodes(prev.tree)
            new  == Nodes(tree)
        IN  /\ \A r \in path :
                   /\ Cardinality({n \in new : n.root = r}) = 1
                   /\ WeightAt(tree, r) = WeightAt(prev.tree, r) + call.weight
            /\ \A n \in old : n.root \notin path => n \in new
            /\ \A n \in new : n.root \notin path => n \in old

\* The value inserted had a leaf already, and the tree held other values in
\* nodes off its path.
C19_Witness ==
    /\ ~removed
    /\ call.kind = "insert"
    /\ prev.stored[call.name] > 0
    /\ \E n \in Nodes(prev.tree) :
           n.root \notin PathRoots(Value(call.name), call.prefix)

(* -------------------- C20: length of a node's root -------------------- *)

\* C20, as stated: after any sequence of inserts, the root attribute of
\* every internal node other than the root of the tree has length exactly 1,
\* and that of the root of the tree has length 0.
C20_InternalRootHasLengthOne ==
    ~removed =>
        /\ Len(tree.root) = 0
        /\ \A n \in Nodes(tree) : \A i \in 1..Len(n.subtrees) :
               IsInternal(n.subtrees[i]) => Len(n.subtrees[i].root) = 1

\* C20, amended: after any sequence of inserts, the root attribute of every
\* internal node other than the root of the tree is the root of its parent
\* followed by exactly 1 symbol, and that of the root of the tree has
\* length 0.
C20_InternalRootExtendsParentByOne ==
    ~removed =>
        /\ Len(tree.root) = 0
        /\ \A n \in Nodes(tree) : \A i \in 1..Len(n.subtrees) :
               LET child == n.subtrees[i] IN
               IsInternal(child) =>
                   /\ Len(child.root) = Len(n.root) + 1
                   /\ SubSeq(child.root, 1, Len(n.root)) = n.root

\* Inserts alone built a tree with two values or more and an internal node
\* three levels below the root.
C20_Witness ==
    /\ ~removed
    /\ len(tree) >= 2
    /\ \E n \in Nodes(tree) : IsInternal(n) /\ Len(n.root) = 3

(* ------------------ C21: roots are cumulative paths -------------------- *)

\* The node n, d levels below the root of the tree on the path of symbols
\* path, and all below it are in place: the root of n is the path, of
\* length d; a subtree holding a value is a leaf of a value whose prefix
\* sequence is the path; any other subtree is in place one level down, on
\* the path followed by one symbol.
RECURSIVE InPlace(_, _, _)
InPlace(n, d, path) ==
    /\ n.root = path
    /\ Len(n.root) = d
    /\ \A i \in 1..Len(n.subtrees) :
           LET child == n.subtrees[i] IN
           IF IsValue(child.root)
           THEN child.subtrees = <<>> /\ PrefixOf(child.root[2]) = path
           ELSE /\ Len(child.root) = d + 1
                /\ InPlace(child, d + 1, Append(path, child.root[d + 1]))

\* C21: the root of every internal node other than the root of the tree is
\* the root of its parent followed by one symbol, so a node at depth d has
\* as root the path of length d from the root of the tree, and every leaf
\* is a child of the node whose root is the prefix sequence of its value.
C21_RootsAreCumulativePaths == InPlace(tree, 0, <<>>)

\* A remove call deleted a value and left two values or more, one of them
\* in a leaf below a node at depth 3 and one in a leaf below a node at
\* depth 1.
C21_Witness ==
    /\ call.kind = "remove"
    /\ len(prev.tree) > len(tree)
    /\ len(tree) >= 2
    /\ \E n \in Nodes(tree) :
           /\ Len(n.root) = 3
           /\ \E i \in 1..Len(n.subtrees) : IsValue(n.subtrees[i].root)
    /\ \E n \in Nodes(tree) :
           /\ Len(n.root) = 1
           /\ \E i \in 1..Len(n.subtrees) : IsValue(n.subtrees[i].root)

(* ------------------- C22: no duplicate among nodes --------------------- *)

\* The roots of all the nodes of a list of trees, one entry per node
RECURSIVE RootsOfAll(_)
RootsOfAll(ts) ==
    IF ts = <<>> THEN <<>>
    ELSE <<Head(ts).root>> \o RootsOfAll(Head(ts).subtrees)
             \o RootsOfAll(Tail(ts))

\* The number of leaves of t that hold the value
LeafCount(t, value) ==
    LET roots == RootsOfAll(<<t>>)
    IN  Cardinality({i \in 1..Len(roots) : roots[i] = value})

\* C22: after any sequence of inserts meeting the preconditions and removes,
\* no node has two internal subtrees with the same root, and no value is
\* held by more than one leaf.
C22_NoDuplicateSubtreeNorLeaf ==
    /\ \A n \in Nodes(tree) :
           \A i \in 1..Len(n.subtrees) : \A j \in (i + 1)..Len(n.subtrees) :
               ~IsValue(n.subtrees[i].root)
                   => n.subtrees[i].root # n.subtrees[j].root
    /\ \A s \in Names : LeafCount(tree, Value(s)) <= 1

\* After a remove call that deleted a value below the top level (the root
\* weighs more than the values stored), a value that has a leaf is inserted
\* again into a tree where some node has two internal subtrees.
C22_Witness ==
    /\ removed
    /\ tree.weight > SumStored(stored, Names)
    /\ call.kind = "insert"
    /\ LeafCount(prev.tree, Value(call.name)) = 1
    /\ \E n \in Nodes(tree) :
           Cardinality({i \in 1..Len(n.subtrees) :
                           ~IsValue(n.subtrees[i].root)}) >= 2

(* --------------------- C23: weights of the nodes ----------------------- *)

\* C23: after any insert (weight > 0) and remove calls, every node has a
\* weight >= 0, and a weight of 0.0 goes only with the root [] and an empty
\* subtrees list.
C23_WeightZeroOnlyWhenEmpty ==
    \A n \in Nodes(tree) :
        /\ n.weight >= 0
        /\ n.weight = 0 => n.root = <<>> /\ n.subtrees = <<>>

\* A remove call has brought a tree that held values to the weight 0.0.
C23_Witness ==
    /\ call.kind = "remove"
    /\ len(prev.tree) >= 2
    /\ tree.weight = 0

(* ------------------ C24: a removed value inserted again ---------------- *)

\* The values that autocomplete(p, l) returns for some prefix and limit
Returned(t) ==
    UNION {{e[1] : e \in Entries(autocomplete(t, p, l))} :
              p \in Prefixes, l \in Limits}

\* C24: a value that was removed and is inserted again, with the same
\* prefix and weight w, is stored with the weight w exactly, nothing of its
\* earlier weight carried over; and as long as it is not inserted again no
\* autocomplete call returns it.
C24_RemovedValueStartsAfresh ==
    /\ call.kind = "insert" /\ call.name \in SetOf(prev.log)
           => /\ LeafCount(tree, Value(call.name)) = 1
              /\ WeightAt(tree, Value(call.name)) = call.weight
              /\ <<Value(call.name), call.weight>>
                     \in Entries(autocomplete(tree, call.prefix, None))
    /\ log # <<>> => {Value(s) : s \in SetOf(log)} \cap Returned(tree) = {}

\* A value that had been removed is inserted again with a weight other than
\* the one it had, while other values are stored and another removed value
\* is still out.
C24_Witness ==
    /\ call.kind = "insert"
    /\ call.name \in SetOf(prev.log)
    /\ len(prev.tree) >= 1
    /\ len(tree) >= 2
    /\ log # <<>>

(* ---------------- C25: the precondition on the prefix ------------------ *)

\* The insert calls that t.insert(value, weight, prefix) makes, itself
\* included: each as the root of the node it is made on and the prefix it is
\* given.  With a prefix left, insert calls itself on the subtree whose root
\* is self.root + prefix[0:1], the new node or the one found by index, with
\* prefix[1:].
RECURSIVE insert_calls(_, _, _, _)
insert_calls(t, value, weight, prefix) ==
    LET node == create_node(t.root, SubSeq(prefix, 1, 1), weight)
        roots == get_subtree_roots(t.subtrees)
        subtree == IF InList(node.root, roots)
                   THEN t.subtrees[IndexOf(node.root, roots)]
                   ELSE node
    IN  {[root |-> t.root, prefix |-> prefix]} \cup
        IF Len(prefix) = 0 THEN {}
        ELSE insert_calls(subtree, value, weight, Tail(prefix))

\* C25: the precondition prefix[0:len(self.root)] == self.root of insert
\* holds at every call of insert, the recursive calls on a subtree with
\* prefix[1:] included.
C25_PrefixPreconditionAtEveryCall ==
    call.kind = "insert" =>
        \A c \in insert_calls(prev.tree, Value(call.name), call.weight,
                               call.prefix) :
            PrefixStartsWithRoot(c.root, c.prefix)

====
